---- MODULE Spec2Model ----
(***************************************************************************)
(* Model of the kresus transaction consistency code:                       *)
(*   - the category controller (preloadCategory, destroy) and the store    *)
(*     calls it makes, one atomic step per awaited store call;             *)
(*   - the account model (computeBalance, ensureBalance, find, update),    *)
(*     computeOutstandingSum and accountTypeIdToName as functions of the   *)
(*     rows, the clock and the account type;                               *)
(*   - the duplicates default-parameters modal and its submit handlers;    *)
(*   - the duplicate matcher (findDuplicates).                             *)
(* Amounts are integers counted in thousandths of the currency unit, so    *)
(* that rounding to two decimals is a real operation.                      *)
(***************************************************************************)
EXTENDS Integers, Sequences, FiniteSets, TLC

\* ------------------------------------------------------------------ bounds
MaxCat == 3
MaxTx == 3
MaxBudget == 3
MaxInFlight == 2
MaxAcc == 2
MaxOp == 2
MaxDay == 2

\* The null categoryId ("no category").
NoCategory == 0

Users == {"alice", "bob"}
CatIds == 1..MaxCat
TxIds == 1..MaxTx
BudgetIds == 1..MaxBudget
Procs == 1..MaxInFlight
AccIds == 1..MaxAcc
OpIds == 1..MaxOp
Days == 1..MaxDay

\* Amounts are counted in thousandths of the currency unit. The bank reports
\* operation id with a fixed amount: 50.004 for the odd ids, -20.003 for the
\* even, so that a sum is not already a multiple of a hundredth.
AmountOf(id) == IF id % 2 = 1 THEN 50004 ELSE -20003
\* A balance reported by the bank and written with Account.update: 150.00.
ReportedBalances == {150000}

\* The accounts the model links, in turn: one of UNKNOWN_ACCOUNT_TYPE, a card
\* account, a checking account, with the balance each had when it was imported.
AccountKinds ==
    <<[type |-> "account-type.unknown", initialBalance |-> 100000],
      [type |-> "account-type.card", initialBalance |-> 0],
      [type |-> "account-type.checking", initialBalance |-> 100000]>>
KindOf(a) == AccountKinds[((a - 1) % Len(AccountKinds)) + 1]

\* What a numeric column holds when its text does not parse: NaN, written as a
\* number no sum of amounts reaches. A date column that does not parse holds an
\* Invalid Date, written as day 0: every comparison with it is false.
NaN == -999999999
InvalidDate == 0

\* A nullable number: null is the empty set, a number v is {v}.
Null == {}
Some(v) == {v}

\* Rows carry their owner; the last id of each table belongs to the second user.
CatOwner(c) == IF c = MaxCat THEN "bob" ELSE "alice"
TxOwner(t) == IF t = MaxTx THEN "bob" ELSE "alice"
BudgetOwner(b) == IF b = MaxBudget THEN "bob" ELSE "alice"
\* The category a budget row targets: the owner's categories, in turn.
BudgetCategory(b) == IF b = MaxBudget THEN MaxCat ELSE ((b - 1) % (MaxCat - 1)) + 1

VARIABLES
    categories,     \* set of Category rows [id, userId]
    transactions,   \* TxIds -> Transaction row [userId, categoryId, amount]
    budgets,        \* set of Budget rows [id, userId, categoryId]
    req,            \* Procs -> the request a handler is serving, with its position
    pre,            \* Procs -> the store as it was when the request arrived
    accounts,       \* AccIds -> stored Account row [type, initialBalance, balance]
    ledger,         \* set of ledger rows [id, accountId, amount, date]
    now,            \* the clock, in days
    dirty,          \* AccIds -> the balances wiped by ledger mutations since the last read
    last,           \* what the last account operation returned, and what it did
    calc,           \* the last call of a pure function: its inputs and its result
    modal           \* the duplicates default-parameters modal and the settings store

categoryVars == <<categories, transactions, budgets, req, pre>>
balanceVars == <<accounts, ledger, now, dirty, last>>
otherVars == <<calc, modal>>
vars == <<categories, transactions, budgets, req, pre, accounts, ledger, now, dirty, last,
          calc, modal>>

Store == [categories |-> categories, transactions |-> transactions, budgets |-> budgets]

CategoryIdsOf(cats) == {c.id : c \in cats}

\* ------------------------------------------------------------ the store
\* A lookup by id alone, whoever owns the row.
CategoryFindAnyUser(cats, userId, id) == {c \in cats : c.id = id}

\* Category.find(userId, id): the rows found (empty: undefined).
CategoryFind(cats, userId, id) == {c \in cats : c.userId = userId /\ c.id = id}

RECURSIVE SortedSeq(_)
SortedSeq(S) ==
    IF S = {} THEN <<>>
    ELSE LET m == CHOOSE x \in S : \A y \in S : x <= y
         IN <<m>> \o SortedSeq(S \ {m})

\* Transaction.byCategory(userId, categoryId): the ids of the rows, in id order.
TransactionByCategory(txs, userId, categoryId) ==
    SortedSeq({t \in DOMAIN txs : txs[t].userId = userId /\ txs[t].categoryId = categoryId})

\* Transaction.update(userId, id, {categoryId}).
TransactionUpdate(txs, userId, id, categoryId) ==
    IF id \in DOMAIN txs /\ txs[id].userId = userId
    THEN [txs EXCEPT ![id].categoryId = categoryId]
    ELSE txs

\* Budget.destroyForCategory(userId, deletedCategoryId, replacementCategoryId):
\* every budget scoped to the deleted category is removed, none is transferred.
BudgetDestroyForCategory(bs, userId, deletedCategoryId, replacementCategoryId) ==
    {b \in bs : ~(b.userId = userId /\ b.categoryId = deletedCategoryId)}

\* Category.destroy(userId, id).
CategoryDestroy(cats, userId, id) == {c \in cats : ~(c.userId = userId /\ c.id = id)}

\* checkExactFields(body, allowed): TRUE when an error is reported.
checkExactFields(body, allowed) == DOMAIN body # allowed

\* ------------------------------------------------------------- requests
\* A request body: a JSON object with any of the two fields.
Bodies ==
    {<<>>} \cup {[label |-> "x"]}
    \cup {[replaceByCategoryId |-> v] : v \in CatIds \cup {NoCategory}}
    \cup {[replaceByCategoryId |-> v, label |-> "x"] : v \in CatIds \cup {NoCategory}}

IdleReq ==
    [pc |-> "idle", userId |-> "alice", id |-> NoCategory, body |-> <<>>,
     handler |-> "none", categoryId |-> NoCategory, ops |-> <<>>, status |-> 0,
     calls |-> {}, lookupThrew |-> FALSE]

EmptyStore == [categories |-> {}, transactions |-> <<>>, budgets |-> {}]

\* The handler's catch clause: asyncErr answers with the error's status code.
Fail(r, code) == [r EXCEPT !.pc = "done", !.status = code]

\* A validation that only looks for the field and lets other fields through.
ValidationErrorMissingOnly(body) == "replaceByCategoryId" \notin DOMAIN body

\* destroy, line 60: the body must consist of exactly replaceByCategoryId.
ValidationError(body) == checkExactFields(body, {"replaceByCategoryId"})

\* destroy, line 68: a non-null replacement is looked up.
NeedsLookup(replaceBy) == replaceBy # NoCategory

\* A lookup whose result is never tested.
ReplacementNeverMissing(found) == FALSE

\* destroy, line 71: the replacement was not found.
ReplacementNotFound(found) == found = {}

NoResult == [op |-> "none", id |-> 0, balance |-> Null, reads |-> 0, stored |-> Null,
             wiped |-> {}, before |-> <<>>]

\* No pure function was called yet.
NoCalc == [op |-> "none"]

\* The texts typed in the threshold field, and the stored threshold at start.
TypedTexts == {"", "0", "24", "48", "-5", "1.5", "abc"}
DefaultThreshold == "24"

\* The modal before it is shown: not mounted, no submit under way, the settings
\* store holding the threshold and the flag.
ClosedModal ==
    [open |-> FALSE,
     settings |-> [threshold |-> DefaultThreshold, ignoreDifferentCustomFields |-> FALSE],
     state |-> [hasChanged |-> FALSE, threshold |-> DefaultThreshold,
                ignoreDifferentCustomFields |-> FALSE],
     pc |-> "idle",
     args |-> [threshold |-> Null, ignoreDifferentCustomFields |-> Null],
     writes |-> <<>>,
     validated |-> FALSE,
     hidden |-> FALSE,
     atSubmit |-> [state |-> [hasChanged |-> FALSE, threshold |-> DefaultThreshold,
                              ignoreDifferentCustomFields |-> FALSE],
                   props |-> [threshold |-> DefaultThreshold,
                              ignoreDifferentCustomFields |-> FALSE]]]

TypeOK ==
    /\ categories \subseteq [id : CatIds, userId : Users]
    /\ DOMAIN transactions = TxIds
    /\ \A t \in TxIds : transactions[t].categoryId \in CatIds \cup {NoCategory}
    /\ budgets \subseteq [id : BudgetIds, userId : Users, categoryId : CatIds]

Init ==
    /\ categories = {[id |-> c, userId |-> CatOwner(c)] : c \in CatIds}
    /\ transactions \in
         {f \in [TxIds -> [userId : Users, categoryId : CatIds \cup {NoCategory},
                            amount : {AmountOf(t) : t \in TxIds}]] :
            \A t \in TxIds :
               /\ f[t].userId = TxOwner(t)
               /\ f[t].amount = AmountOf(t)
               /\ f[t].categoryId # NoCategory => CatOwner(f[t].categoryId) = TxOwner(t)
               /\ TxOwner(t) = "bob" => f[t].categoryId = MaxCat}
    /\ \E live \in SUBSET BudgetIds :
          /\ MaxBudget \in live
          /\ budgets = {[id |-> b, userId |-> BudgetOwner(b), categoryId |-> BudgetCategory(b)] :
                          b \in live}
    /\ req = [p \in Procs |-> IdleReq]
    /\ pre = [p \in Procs |-> EmptyStore]
    /\ accounts = [a \in AccIds |->
                     [type |-> KindOf(a).type, initialBalance |-> KindOf(a).initialBalance,
                      balance |-> IF a = 1 THEN Some(150000) ELSE Null]]
    /\ ledger = {[id |-> t, accountId |-> 1, amount |-> AmountOf(t), date |-> 1] : t \in TxIds}
    /\ now = 1
    /\ dirty = [a \in AccIds |-> {}]
    /\ last = NoResult
    /\ calc = NoCalc
    /\ modal = ClosedModal

\* preloadCategory (the route's :categoryId parameter), lines 7-21.
preloadCategory(p, userId, id, body, dbOk) ==
    /\ req[p].pc = "idle"
    /\ pre' = [pre EXCEPT ![p] = Store]
    /\ LET r == [IdleReq EXCEPT !.userId = userId, !.id = id, !.body = body,
                                !.handler = "preloadCategory"]
       IN req' = [req EXCEPT ![p] =
                    IF ~dbOk THEN Fail(r, 500)
                    ELSE IF CategoryFind(categories, userId, id) = {} THEN Fail(r, 404)
                    ELSE [r EXCEPT !.pc = "preloaded"]]
    /\ UNCHANGED <<categories, transactions, budgets, balanceVars, otherVars>>

\* destroy, lines 57-68: validation, up to the first await.
DestroyBegin(p) ==
    /\ req[p].pc = "preloaded"
    /\ LET r == [req[p] EXCEPT !.handler = "destroy"]
       IN req' = [req EXCEPT ![p] =
                    IF ValidationError(r.body) THEN Fail(r, 400)
                    ELSE IF NeedsLookup(r.body.replaceByCategoryId)
                         THEN [r EXCEPT !.pc = "find"]
                         ELSE [r EXCEPT !.pc = "byCategory",
                                        !.categoryId = r.body.replaceByCategoryId]]
    /\ UNCHANGED <<categories, transactions, budgets, pre, balanceVars, otherVars>>

\* destroy, lines 70-77: await Category.find(userId, replaceBy).
FindReplacement(p, dbOk) ==
    /\ req[p].pc = "find"
    /\ LET r == [req[p] EXCEPT !.calls = @ \cup {"Category.find"}]
           replaceBy == r.body.replaceByCategoryId
       IN req' = [req EXCEPT ![p] =
                    IF ~dbOk THEN Fail([r EXCEPT !.lookupThrew = TRUE], 500)
                    ELSE IF ReplacementNotFound(CategoryFind(categories, r.userId, replaceBy))
                         THEN Fail(r, 404)
                         ELSE [r EXCEPT !.pc = "byCategory", !.categoryId = replaceBy]]
    /\ UNCHANGED <<categories, transactions, budgets, pre, balanceVars, otherVars>>

\* destroy, line 79: await Transaction.byCategory(userId, former.id).
ByCategory(p, dbOk) ==
    /\ req[p].pc = "byCategory"
    /\ LET r == [req[p] EXCEPT !.calls = @ \cup {"Transaction.byCategory"}]
           operations == TransactionByCategory(transactions, r.userId, r.id)
       IN req' = [req EXCEPT ![p] =
                    IF ~dbOk THEN Fail(r, 500)
                    ELSE [r EXCEPT !.ops = operations,
                                   !.pc = IF operations = <<>> THEN "budgets" ELSE "update"]]
    /\ UNCHANGED <<categories, transactions, budgets, pre, balanceVars, otherVars>>

\* A turn of the loop that also invalidates the cached balance of every account.
UpdateOneInvalidating(p, dbOk) ==
    /\ req[p].pc = "update"
    /\ LET r == [req[p] EXCEPT !.calls = @ \cup {"Transaction.update"}]
       IN IF ~dbOk
          THEN /\ req' = [req EXCEPT ![p] = Fail(r, 500)]
               /\ UNCHANGED <<transactions, accounts>>
          ELSE /\ transactions' = TransactionUpdate(transactions, r.userId, Head(r.ops), r.categoryId)
               /\ accounts' = [a \in AccIds |-> [accounts[a] EXCEPT !.balance = Null]]
               /\ req' = [req EXCEPT ![p] =
                            [r EXCEPT !.ops = Tail(r.ops),
                                      !.pc = IF Tail(r.ops) = <<>> THEN "budgets" ELSE "update"]]
    /\ UNCHANGED <<categories, budgets, pre, ledger, now, dirty, last, otherVars>>

\* destroy, lines 80-82: one turn of the loop, await Transaction.update(...).
UpdateOne(p, dbOk) ==
    /\ req[p].pc = "update"
    /\ LET r == [req[p] EXCEPT !.calls = @ \cup {"Transaction.update"}]
       IN IF ~dbOk
          THEN /\ req' = [req EXCEPT ![p] = Fail(r, 500)]
               /\ UNCHANGED transactions
          ELSE /\ transactions' = TransactionUpdate(transactions, r.userId, Head(r.ops), r.categoryId)
               /\ req' = [req EXCEPT ![p] =
                            [r EXCEPT !.ops = Tail(r.ops),
                                      !.pc = IF Tail(r.ops) = <<>> THEN "budgets" ELSE "update"]]
    /\ UNCHANGED <<categories, budgets, pre, balanceVars, otherVars>>

\* The call of line 84 with its two category arguments swapped.
DestroyBudgetsSwapped(p, dbOk) ==
    /\ req[p].pc = "budgets"
    /\ LET r == [req[p] EXCEPT !.calls = @ \cup {"Budget.destroyForCategory"}]
       IN IF ~dbOk
          THEN /\ req' = [req EXCEPT ![p] = Fail(r, 500)]
               /\ UNCHANGED budgets
          ELSE /\ budgets' = BudgetDestroyForCategory(budgets, r.userId, r.categoryId, r.id)
               /\ req' = [req EXCEPT ![p] = [r EXCEPT !.pc = "category"]]
    /\ UNCHANGED <<categories, transactions, pre, balanceVars, otherVars>>

\* destroy, line 84: await Budget.destroyForCategory(userId, former.id, categoryId).
DestroyBudgets(p, dbOk) ==
    /\ req[p].pc = "budgets"
    /\ LET r == [req[p] EXCEPT !.calls = @ \cup {"Budget.destroyForCategory"}]
       IN IF ~dbOk
          THEN /\ req' = [req EXCEPT ![p] = Fail(r, 500)]
               /\ UNCHANGED budgets
          ELSE /\ budgets' = BudgetDestroyForCategory(budgets, r.userId, r.id, r.categoryId)
               /\ req' = [req EXCEPT ![p] = [r EXCEPT !.pc = "category"]]
    /\ UNCHANGED <<categories, transactions, pre, balanceVars, otherVars>>

\* destroy, lines 86-87: await Category.destroy(userId, former.id), then 200.
DestroyCategory(p, dbOk) ==
    /\ req[p].pc = "category"
    /\ LET r == [req[p] EXCEPT !.calls = @ \cup {"Category.destroy"}]
       IN IF ~dbOk
          THEN /\ req' = [req EXCEPT ![p] = Fail(r, 500)]
               /\ UNCHANGED categories
          ELSE /\ categories' = CategoryDestroy(categories, r.userId, r.id)
               /\ req' = [req EXCEPT ![p] = Fail(r, 200)]
    /\ UNCHANGED <<transactions, budgets, pre, balanceVars, otherVars>>

\* The response has been sent; the handler is free for the next request.
Respond(p) ==
    /\ req[p].pc = "done"
    /\ req' = [req EXCEPT ![p] = IdleReq]
    /\ pre' = [pre EXCEPT ![p] = EmptyStore]
    /\ UNCHANGED <<categories, transactions, budgets, balanceVars, otherVars>>

\* Requests are served one at a time: a single handler is active.
Next ==
    \/ \E userId \in Users, id \in CatIds, body \in Bodies, dbOk \in BOOLEAN :
          preloadCategory(1, userId, id, body, dbOk)
    \/ DestroyBegin(1)
    \/ \E dbOk \in BOOLEAN : FindReplacement(1, dbOk)
    \/ \E dbOk \in BOOLEAN : ByCategory(1, dbOk)
    \/ \E dbOk \in BOOLEAN : UpdateOne(1, dbOk)
    \/ \E dbOk \in BOOLEAN : DestroyBudgets(1, dbOk)
    \/ \E dbOk \in BOOLEAN : DestroyCategory(1, dbOk)
    \/ Respond(1)

Spec == Init /\ [][Next]_vars

\* ------------------------------------------------- requests in flight together
\* The body of a well-formed destroy request.
ExactBodies == {[replaceByCategoryId |-> v] : v \in CatIds \cup {NoCategory}}

\* A destroy(c, r) request arrives while others are being served: r is null or
\* another category than c.
ArriveDestroy(p, userId, id, body, dbOk) ==
    /\ body.replaceByCategoryId # id
    /\ preloadCategory(p, userId, id, body, dbOk)

\* A request that assigns transaction id to the category categoryId arrives:
\* the category is looked up first.
ArriveAssign(p, userId, id, categoryId) ==
    /\ req[p].pc = "idle"
    /\ pre' = [pre EXCEPT ![p] = Store]
    /\ req' = [req EXCEPT ![p] =
                 [IdleReq EXCEPT !.userId = userId, !.id = id, !.categoryId = categoryId,
                                 !.handler = "updateTransaction",
                                 !.pc = "assignFind"]]
    /\ UNCHANGED <<categories, transactions, budgets, balanceVars, otherVars>>

\* The assignment's await Category.find(userId, categoryId): 404 when not found.
AssignFind(p) ==
    /\ req[p].pc = "assignFind"
    /\ LET r == [req[p] EXCEPT !.calls = @ \cup {"Category.find"}]
       IN req' = [req EXCEPT ![p] =
                    IF CategoryFind(categories, r.userId, r.categoryId) = {} THEN Fail(r, 404)
                    ELSE [r EXCEPT !.pc = "assignUpdate"]]
    /\ UNCHANGED <<categories, transactions, budgets, pre, balanceVars, otherVars>>

\* The assignment's await Transaction.update(userId, id, {categoryId}), then 200.
AssignUpdate(p) ==
    /\ req[p].pc = "assignUpdate"
    /\ LET r == [req[p] EXCEPT !.calls = @ \cup {"Transaction.update"}]
       IN /\ transactions' = TransactionUpdate(transactions, r.userId, r.id, r.categoryId)
          /\ req' = [req EXCEPT ![p] = Fail(r, 200)]
    /\ UNCHANGED <<categories, budgets, pre, balanceVars, otherVars>>

\* Every handler gives way at each of its awaits: the steps of the requests in
\* flight interleave in any order. Each handler serves one request.
NextInterleaved ==
    \E p \in Procs :
        \/ \E userId \in Users, id \in CatIds, body \in ExactBodies, dbOk \in BOOLEAN :
              ArriveDestroy(p, userId, id, body, dbOk)
        \/ \E userId \in Users, id \in TxIds, categoryId \in CatIds :
              ArriveAssign(p, userId, id, categoryId)
        \/ AssignFind(p)
        \/ AssignUpdate(p)
        \/ DestroyBegin(p)
        \/ \E dbOk \in BOOLEAN : FindReplacement(p, dbOk)
        \/ \E dbOk \in BOOLEAN : ByCategory(p, dbOk)
        \/ \E dbOk \in BOOLEAN : UpdateOne(p, dbOk)
        \/ \E dbOk \in BOOLEAN : DestroyBudgets(p, dbOk)
        \/ \E dbOk \in BOOLEAN : DestroyCategory(p, dbOk)

SpecInterleaved == Init /\ [][NextInterleaved]_vars

\* ------------------------------------------------------- account balances
\* Transaction.byAccount(userId, account): the account's rows, in id order.
RECURSIVE RowsById(_)
RowsById(rows) ==
    IF rows = {} THEN <<>>
    ELSE LET r == CHOOSE x \in rows : \A y \in rows : x.id <= y.id
         IN <<r>> \o RowsById(rows \ {r})

TransactionByAccount(rows, accountId) == RowsById({r \in rows : r.accountId = accountId})

\* shouldIncludeInBalance(op, today, type): a future-dated (pending) operation
\* counts only for an account type whose balance is forward-looking.
shouldIncludeInBalance(op, today, type) ==
    (op.date # InvalidDate /\ op.date <= today) \/ type = "account-type.card"

\* Math.round(s * 100) / 100 on thousandths: Math.round is floor(x + 0.5), and
\* NaN stays NaN.
Round2(s) == IF s = NaN THEN NaN ELSE 10 * ((s + 5) \div 10)

\* sum + op.amount: NaN absorbs.
Plus(sum, amount) == IF sum = NaN \/ amount = NaN THEN NaN ELSE sum + amount

\* A reduce that adds the first row only.
ReduceFirstOnly(ops, sum) == IF ops = <<>> THEN sum ELSE Plus(sum, Head(ops).amount)

RECURSIVE Reduce(_, _)
Reduce(ops, sum) ==
    IF ops = <<>> THEN sum ELSE Reduce(Tail(ops), Plus(sum, Head(ops).amount))

\* computeBalance's default parameter: offset = 0.
DefaultOffset == 0

\* A computeBalance without the filter: every row of the account is added.
computeBalanceUnfiltered(account, ops, today, offset) == Round2(Reduce(ops, offset))

\* A computeBalance in which a later included row replaces the sum so far.
computeBalanceLastWins(account, ops, today, offset) ==
    LET kept == SelectSeq(ops, LAMBDA op : shouldIncludeInBalance(op, today, account.type))
    IN Round2(IF kept = <<>> THEN offset ELSE Plus(offset, kept[Len(kept)].amount))

\* Account.computeBalance(offset), lines 241-249.
computeBalance(account, ops, today, offset) ==
    Round2(Reduce(SelectSeq(ops, LAMBDA op : shouldIncludeInBalance(op, today, account.type)),
                  offset))

\* An ensureBalance that recomputes whatever the cached value is.
ensureBalanceAlways(account, ops, today) ==
    [balance |-> Some(computeBalance(account, ops, today, DefaultOffset)), reads |-> 1]

\* An ensureBalance whose test is inverted.
ensureBalanceInverted(account, ops, today) ==
    IF account.balance # Null
    THEN [balance |-> Some(computeBalance(account, ops, today, DefaultOffset)), reads |-> 1]
    ELSE [balance |-> account.balance, reads |-> 0]

\* An ensureBalance that leaves the balance as stored.
ensureBalanceSkipped(account, ops, today) == [balance |-> account.balance, reads |-> 0]

\* Account.ensureBalance(account), lines 275-281: the balance the account object
\* carries afterwards, and the number of Transaction.byAccount calls made.
ensureBalance(account, ops, today) ==
    IF account.balance = Null
    THEN [balance |-> Some(computeBalance(account, ops, today, DefaultOffset)), reads |-> 1]
    ELSE [balance |-> account.balance, reads |-> 0]

InitBalance ==
    /\ categories = {}
    /\ transactions = [t \in TxIds |-> [userId |-> TxOwner(t), categoryId |-> NoCategory,
                                         amount |-> AmountOf(t)]]
    /\ budgets = {}
    /\ req = [p \in Procs |-> IdleReq]
    /\ pre = [p \in Procs |-> EmptyStore]
    /\ accounts = [a \in AccIds |->
                     [type |-> KindOf(a).type, initialBalance |-> KindOf(a).initialBalance,
                      balance |-> Null]]
    /\ ledger = {}
    /\ now = 1
    /\ dirty = [a \in AccIds |-> {}]
    /\ last = NoResult
    /\ calc = NoCalc
    /\ modal = ClosedModal

\* Account.find(userId, accountId), lines 326-332.
AccountFind(accountId) ==
    /\ LET account == accounts[accountId]
           got == ensureBalance(account, TransactionByAccount(ledger, accountId), now)
       IN last' = [op |-> "find", id |-> accountId, balance |-> got.balance,
                   reads |-> got.reads, stored |-> account.balance,
                   wiped |-> dirty[accountId], before |-> <<accounts, ledger>>]
    /\ dirty' = [dirty EXCEPT ![accountId] = {}]
    /\ UNCHANGED <<accounts, ledger, now, categoryVars, otherVars>>

\* Account.update(userId, accountId, attributes), lines 353-360: the row is
\* written, then read back with Account.find.
AccountUpdate(accountId, attributes) ==
    /\ LET account == [f \in DOMAIN accounts[accountId] |->
                         IF f \in DOMAIN attributes THEN attributes[f]
                         ELSE accounts[accountId][f]]
           got == ensureBalance(account, TransactionByAccount(ledger, accountId), now)
       IN /\ accounts' = [accounts EXCEPT ![accountId] = account]
          /\ last' = [op |-> "update", id |-> accountId, balance |-> got.balance,
                      reads |-> got.reads, stored |-> account.balance, wiped |-> {},
                      before |-> <<accounts', ledger>>]
    /\ dirty' = [dirty EXCEPT ![accountId] = {}]
    /\ UNCHANGED <<ledger, now, categoryVars, otherVars>>

\* A ledger mutation invalidates the account's cached balance (sets it null).
Invalidate(accountId) ==
    /\ accounts' = [accounts EXCEPT ![accountId].balance = Null]
    /\ dirty' = [dirty EXCEPT ![accountId] = @ \cup {accounts[accountId].balance}]
    /\ last' = NoResult

\* A transaction is added to an account (import or manual entry).
AddTransaction(id, accountId, date) ==
    /\ ~\E r \in ledger : r.id = id
    /\ ledger' = ledger \cup {[id |-> id, accountId |-> accountId, amount |-> AmountOf(id),
                               date |-> date]}
    /\ Invalidate(accountId)
    /\ UNCHANGED <<now, categoryVars, otherVars>>

\* A transaction is removed.
RemoveTransaction(id) ==
    /\ \E r \in ledger :
          /\ r.id = id
          /\ ledger' = ledger \ {r}
          /\ Invalidate(r.accountId)
    /\ UNCHANGED <<now, categoryVars, otherVars>>

\* A transaction is re-dated.
RedateTransaction(id, date) ==
    /\ \E r \in ledger :
          /\ r.id = id
          /\ r.date # date
          /\ ledger' = (ledger \ {r}) \cup {[r EXCEPT !.date = date]}
          /\ Invalidate(r.accountId)
    /\ UNCHANGED <<now, categoryVars, otherVars>>

\* A day passes.
Tick ==
    /\ now < MaxDay
    /\ now' = now + 1
    /\ last' = NoResult
    /\ UNCHANGED <<accounts, ledger, dirty, categoryVars, otherVars>>

NextBalance ==
    \/ \E a \in AccIds : AccountFind(a)
    \/ \E a \in AccIds, v \in ReportedBalances : AccountUpdate(a, [balance |-> Some(v)])
    \/ \E id \in OpIds, a \in AccIds, date \in Days : AddTransaction(id, a, date)
    \/ \E id \in OpIds : RemoveTransaction(id)
    \/ \E id \in OpIds, date \in Days : RedateTransaction(id, date)
    \/ Tick

SpecBalance == InitBalance /\ [][NextBalance]_vars

\* ------------------------------------------- the account model's operations
\* The access and the bank an account row belongs to.
AccessIds == 1..2
AccessOf(a) == IF a <= 2 THEN 1 ELSE 2
VendorIds == {"bank-a", "bank-b"}
VendorOf(a) == IF a % 2 = 1 THEN "bank-a" ELSE "bank-b"

\* The balance column of a row to create: null by default, or a number.
StoredBalances == {Null} \cup {Some(v) : v \in ReportedBalances}

\* The ids of the rows the account table holds.
Existing == {a \in AccIds : accounts[a].exists}

\* The table holds any of the accounts, each with a null or a numeric balance,
\* and the ledger a row for the first of them.
InitAccounts ==
    /\ categories = {}
    /\ transactions = [t \in TxIds |-> [userId |-> TxOwner(t), categoryId |-> NoCategory,
                                         amount |-> AmountOf(t)]]
    /\ budgets = {}
    /\ req = [p \in Procs |-> IdleReq]
    /\ pre = [p \in Procs |-> EmptyStore]
    /\ accounts \in [AccIds -> [type : {KindOf(a).type : a \in AccIds},
                                initialBalance : {KindOf(a).initialBalance : a \in AccIds},
                                balance : StoredBalances, exists : BOOLEAN]]
    /\ \A a \in AccIds :
          /\ accounts[a].type = KindOf(a).type
          /\ accounts[a].initialBalance = KindOf(a).initialBalance
          /\ ~accounts[a].exists => accounts[a].balance = Null
    /\ ledger = {[id |-> 1, accountId |-> a, amount |-> AmountOf(1), date |-> 1] :
                    a \in {b \in {1} : accounts[b].exists}}
    /\ now = 1
    /\ dirty = [a \in AccIds |-> {}]
    /\ last = NoResult
    /\ calc = NoCalc
    /\ modal = ClosedModal

\* repo().find(...) then Promise.all(accounts.map(Account.ensureBalance)): the
\* rows selected, each with the balance ensureBalance leaves on it.
ReturnMany(op, selected) ==
    /\ LET found == selected \cap Existing
       IN calc' = [op |-> op,
                   returned |-> [a \in found |->
                                   ensureBalance(accounts[a], TransactionByAccount(ledger, a),
                                                 now).balance],
                   stored |-> [a \in found |-> accounts[a].balance]]
    /\ last' = NoResult
    /\ UNCHANGED <<accounts, ledger, now, dirty, categoryVars, modal>>

\* Account.byVendorId(userId, {uuid}), lines 293-300.
AccountByVendorId(vendorId) ==
    ReturnMany("byVendorId", {a \in AccIds : VendorOf(a) = vendorId})

\* Account.findMany(userId, accountIds), lines 302-306.
AccountFindMany(accountIds) == ReturnMany("findMany", accountIds)

\* Account.byAccess(userId, access), lines 308-312.
AccountByAccess(accessId) ==
    ReturnMany("byAccess", {a \in AccIds : AccessOf(a) = accessId})

\* Account.all(userId), lines 334-338.
AccountAll == ReturnMany("all", AccIds)

\* Account.create(userId, attributes), lines 319-324: the row is saved, then
\* ensureBalance runs on the saved entity. A new account has no transaction.
AccountCreate(accountId, balance) ==
    /\ ~accounts[accountId].exists
    /\ ~\E r \in ledger : r.accountId = accountId
    /\ LET account == [accounts[accountId] EXCEPT !.exists = TRUE, !.balance = balance]
       IN /\ accounts' = [accounts EXCEPT ![accountId] = account]
          /\ calc' = [op |-> "create",
                      returned |-> [a \in {accountId} |->
                                      ensureBalance(account,
                                                    TransactionByAccount(ledger, accountId),
                                                    now).balance],
                      stored |-> [a \in {accountId} |-> balance]]
    /\ last' = NoResult
    /\ UNCHANGED <<ledger, now, dirty, categoryVars, modal>>

\* Account.destroy(userId, accountId), lines 345-347; the account's
\* transactions go with it.
AccountDestroy(accountId) ==
    /\ accounts[accountId].exists
    /\ accounts' = [accounts EXCEPT ![accountId].exists = FALSE, ![accountId].balance = Null]
    /\ ledger' = {r \in ledger : r.accountId # accountId}
    /\ dirty' = [dirty EXCEPT ![accountId] = {}]
    /\ last' = NoResult
    /\ calc' = NoCalc
    /\ UNCHANGED <<now, categoryVars, modal>>

NextAccounts ==
    \/ \E a \in Existing : AccountFind(a)
    \/ \E a \in Existing, balance \in StoredBalances : AccountUpdate(a, [balance |-> balance])
    \/ \E vendorId \in VendorIds : AccountByVendorId(vendorId)
    \/ \E accountIds \in SUBSET AccIds : AccountFindMany(accountIds)
    \/ \E accessId \in AccessIds : AccountByAccess(accessId)
    \/ AccountAll
    \/ \E a \in AccIds, balance \in StoredBalances : AccountCreate(a, balance)
    \/ \E a \in AccIds : AccountDestroy(a)
    \/ \E id \in OpIds, a \in Existing, date \in Days : AddTransaction(id, a, date)
    \/ \E id \in OpIds : RemoveTransaction(id)
    \/ Tick

SpecAccounts == InitAccounts /\ [][NextAccounts]_vars

\* ------------------------------------------------- the balance functions
\* The days of a month, and the last day of the month a day falls in.
MonthLen == 2
EndOfMonth(d) == MonthLen * ((d + MonthLen - 1) \div MonthLen)

\* shouldIncludeInOutstandingSum(op, limitToCurrentMonth): a future-dated
\* operation, of the current month only when the setting says so. The clock it
\* reads is passed as today.
shouldIncludeInOutstandingSum(op, today, limitToCurrentMonth) ==
    /\ op.date # InvalidDate
    /\ op.date > today
    /\ limitToCurrentMonth => op.date <= EndOfMonth(today)

\* Account.computeOutstandingSum(), lines 251-261.
computeOutstandingSum(ops, today, isOngoingLimitedToCurrentMonth) ==
    Round2(Reduce(SelectSeq(ops, LAMBDA op :
                      shouldIncludeInOutstandingSum(op, today, isOngoingLimitedToCurrentMonth)),
                  0))

\* The orders in which the store may hand over a set of rows.
Orderings(rows) ==
    {q \in [1..Cardinality(rows) -> rows] :
        \A i, j \in 1..Cardinality(rows) : q[i] = q[j] => i = j}

\* The account-type table (shared/account-types.json): external id -> name.
AccountTypes ==
    {[weboobvalue |-> "0", name |-> "account-type.unknown"],
     [weboobvalue |-> "1", name |-> "account-type.checking"],
     [weboobvalue |-> "7", name |-> "account-type.card"]}

\* AccountTypeToName, lines 98-101: keyed by the id written as a string.
AccountTypeToName ==
    [k \in {t.weboobvalue : t \in AccountTypes} |->
        (CHOOSE t \in AccountTypes : t.weboobvalue = k).name]

\* The external ids a caller passes: a JavaScript value with its kind and the
\* text `${externalId}` gives.
ExternalIds ==
    {[kind |-> "number", text |-> "0"], [kind |-> "number", text |-> "1"],
     [kind |-> "string", text |-> "7"], [kind |-> "number", text |-> "99"],
     [kind |-> "string", text |-> "account-type.card"],
     [kind |-> "string", text |-> ""], [kind |-> "undefined", text |-> "undefined"]}

\* !externalId, line 105.
Falsy(externalId) ==
    \/ externalId.kind = "undefined"
    \/ externalId.kind = "number" /\ externalId.text = "0"
    \/ externalId.kind = "string" /\ externalId.text = ""

\* An accountTypeIdToName that stays silent about an id it does not know.
accountTypeIdToNameSilent(externalId) ==
    IF Falsy(externalId) \/ externalId.text \notin DOMAIN AccountTypeToName
    THEN [name |-> Null, logged |-> FALSE]
    ELSE [name |-> Some(AccountTypeToName[externalId.text]), logged |-> FALSE]

\* accountTypeIdToName(externalId), lines 104-116: the name returned (null or a
\* name) and whether log.error was called.
accountTypeIdToName(externalId) ==
    IF Falsy(externalId) THEN [name |-> Null, logged |-> FALSE]
    ELSE IF externalId.text \notin DOMAIN AccountTypeToName
         THEN [name |-> Null, logged |-> TRUE]
         ELSE [name |-> Some(AccountTypeToName[externalId.text]), logged |-> FALSE]

\* The values Account.type takes: names of the table, and one it does not hold.
TypeValues ==
    {"account-type.unknown", "account-type.checking", "account-type.card", "account-type.bogus"}

\* The rows the ledger is drawn from: operation id on an account, dated in or
\* after the clock's range, well formed or with an amount or a date that did not
\* parse. Only the last operation id may belong to another account than the first.
Absent == [accountId |-> 0, date |-> InvalidDate, bad |-> FALSE]
RowChoices ==
    {Absent}
    \cup [accountId : AccIds, date : 1..(MaxDay + 1), bad : {FALSE}]
    \cup [accountId : {1}, date : {1}, bad : {TRUE}]
    \cup [accountId : {1}, date : {InvalidDate}, bad : {FALSE}]

RowOf(id, c) ==
    [id |-> id, accountId |-> c.accountId, date |-> c.date,
     amount |-> IF c.bad THEN NaN ELSE AmountOf(id)]

LedgerInputs ==
    {{RowOf(id, f[id]) : id \in {i \in OpIds : f[i] # Absent}} :
        f \in {g \in [OpIds -> RowChoices] :
                 \A i \in OpIds : (i < MaxOp /\ g[i] # Absent) => g[i].accountId = 1}}

InitCompute ==
    /\ categories = {}
    /\ transactions = [t \in TxIds |-> [userId |-> TxOwner(t), categoryId |-> NoCategory,
                                         amount |-> AmountOf(t)]]
    /\ budgets = {}
    /\ req = [p \in Procs |-> IdleReq]
    /\ pre = [p \in Procs |-> EmptyStore]
    /\ \E type \in TypeValues :
          accounts = [a \in AccIds |->
                        [type |-> type, initialBalance |-> KindOf(a).initialBalance,
                         balance |-> Some(150000)]]
    /\ ledger \in LedgerInputs
    /\ now = 1
    /\ dirty = [a \in AccIds |-> {}]
    /\ last = NoResult
    /\ calc = NoCalc
    /\ modal = ClosedModal

\* The ids of the rows the filter of computeBalance keeps, and of those the
\* filter of computeOutstandingSum keeps.
CountedInBalance(ops, today, type) ==
    {ops[i].id : i \in {j \in DOMAIN ops : shouldIncludeInBalance(ops[j], today, type)}}

CountedInOutstandingSum(ops, today, limit) ==
    {ops[i].id : i \in {j \in DOMAIN ops : shouldIncludeInOutstandingSum(ops[j], today, limit)}}

\* The rows of an account as the store hands them over when it goes through the
\* operation ids in the order given.
ByOrder(rows, order) ==
    LET ids == SelectSeq(order, LAMBDA i : \E r \in rows : r.id = i)
    IN [k \in 1..Len(ids) |-> CHOOSE r \in rows : r.id = ids[k]]

\* account.computeBalance(offset) is called, the store handing the rows over in
\* the given order. The call before it, when it was the same call, is remembered.
CallComputeBalance(accountId, offset, order) ==
    LET ops == ByOrder({r \in ledger : r.accountId = accountId}, order)
    IN /\ offset \in {DefaultOffset, accounts[accountId].initialBalance}
       /\ calc' = [op |-> "computeBalance", id |-> accountId, offset |-> offset,
                   ops |-> ops, today |-> now,
                   counted |-> CountedInBalance(ops, now, accounts[accountId].type),
                   result |-> computeBalance(accounts[accountId], ops, now, offset),
                   before |-> <<accounts, ledger>>,
                   prev |-> IF calc.op = "computeBalance" /\ calc.id = accountId
                               /\ calc.offset = offset
                            THEN {[ops |-> calc.ops, today |-> calc.today,
                                   result |-> calc.result]}
                            ELSE {}]
       /\ UNCHANGED <<accounts, ledger, now, dirty, last, modal, categoryVars>>

\* account.computeOutstandingSum() is called, the setting being limit.
CallComputeOutstandingSum(accountId, limit) ==
    LET ops == TransactionByAccount(ledger, accountId)
    IN /\ calc' = [op |-> "computeOutstandingSum", id |-> accountId, limit |-> limit,
                   ops |-> ops, today |-> now,
                   counted |-> CountedInOutstandingSum(ops, now, limit),
                   result |-> computeOutstandingSum(ops, now, limit),
                   before |-> <<accounts, ledger>>]
       /\ UNCHANGED <<accounts, ledger, now, dirty, last, modal, categoryVars>>

\* accountTypeIdToName(externalId) is called.
CallAccountTypeIdToName(externalId) ==
    /\ calc' = [op |-> "accountTypeIdToName", arg |-> externalId,
                name |-> accountTypeIdToName(externalId).name,
                logged |-> accountTypeIdToName(externalId).logged]
    /\ UNCHANGED <<accounts, ledger, now, dirty, last, modal, categoryVars>>

\* The offsets computeBalance is called with: none, or an initial balance.
Offsets == {DefaultOffset} \cup {KindOf(a).initialBalance : a \in AccIds}

\* The orders in which the store may go through the operation ids.
Orders == Orderings(OpIds)

NextCompute ==
    \/ \E a \in AccIds, offset \in Offsets, order \in Orders :
          CallComputeBalance(a, offset, order)
    \/ \E a \in AccIds, limit \in BOOLEAN : CallComputeOutstandingSum(a, limit)
    \/ \E externalId \in ExternalIds : CallAccountTypeIdToName(externalId)
    \/ Tick

SpecCompute == InitCompute /\ [][NextCompute]_vars

\* ------------------------------------- the duplicates default-parameters modal
\* The number a text of the field denotes, in tenths; texts that are no number
\* denote none.
NumberOf(text) ==
    CASE text = "0" -> {0}
      [] text = "24" -> {240}
      [] text = "48" -> {480}
      [] text = "-5" -> {-50}
      [] text = "1.5" -> {15}
      [] OTHER -> {}

\* <input type="number">, line 100: the value of the field is the text typed when
\* it is a number, and the empty string otherwise.
InputValue(text) == IF NumberOf(text) = {} THEN "" ELSE text

\* min="0" step="1", lines 101-102: the field is valid when it holds a
\* non-negative whole number.
InputValid(value) == \A n \in NumberOf(value) : n >= 0 /\ n % 10 = 0

\* The props connect() derives from the store, lines 17-25.
Props == modal.settings

\* The modal is shown: Content is mounted with its state taken from the props,
\* lines 51-55.
ShowModal ==
    /\ ~modal.open
    /\ modal.pc = "idle"
    /\ modal' = [modal EXCEPT !.open = TRUE,
                              !.hidden = FALSE,
                              !.state = [hasChanged |-> FALSE,
                                         threshold |-> Props.threshold,
                                         ignoreDifferentCustomFields |->
                                             Props.ignoreDifferentCustomFields]]
    /\ UNCHANGED <<calc, categoryVars, balanceVars>>

\* handleThresholdChange(event), lines 64-71, text being typed in the field.
handleThresholdChange(text) ==
    /\ modal.open
    /\ LET value == InputValue(text)
       IN modal' = IF value # ""
                   THEN [modal EXCEPT !.state.threshold = value, !.state.hasChanged = TRUE]
                   ELSE modal
    /\ UNCHANGED <<calc, categoryVars, balanceVars>>

\* handleCustomLabelsCheckChange(checked), lines 73-78.
handleCustomLabelsCheckChange(checked) ==
    /\ modal.open
    /\ modal' = [modal EXCEPT !.state.hasChanged = TRUE,
                              !.state.ignoreDifferentCustomFields = checked]
    /\ UNCHANGED <<calc, categoryVars, balanceVars>>

\* A submit that passes both local values, changed or not.
ContentHandleSubmitUnconditional(validated) ==
    /\ modal.open
    /\ modal.pc = "idle"
    /\ modal.state.hasChanged
    /\ validated => InputValid(modal.state.threshold)
    /\ modal' = [modal EXCEPT
          !.pc = "threshold",
          !.writes = <<>>,
          !.validated = validated,
          !.atSubmit = [state |-> modal.state, props |-> Props],
          !.args = [threshold |-> Some(modal.state.threshold),
                    ignoreDifferentCustomFields |->
                        Some(modal.state.ignoreDifferentCustomFields)]]
    /\ UNCHANGED <<calc, categoryVars, balanceVars>>

\* Content.handleSubmit, lines 80-87, on the form's submit event. The submit
\* button is enabled once something changed (line 129); validated tells whether
\* the submission went through the field's validation.
ContentHandleSubmit(validated) ==
    /\ modal.open
    /\ modal.pc = "idle"
    /\ modal.state.hasChanged
    /\ validated => InputValid(modal.state.threshold)
    /\ modal' = [modal EXCEPT
          !.pc = "threshold",
          !.writes = <<>>,
          !.validated = validated,
          !.atSubmit = [state |-> modal.state, props |-> Props],
          !.args = [threshold |->
                        IF modal.state.threshold # Props.threshold
                        THEN Some(modal.state.threshold) ELSE Null,
                    ignoreDifferentCustomFields |->
                        IF modal.state.ignoreDifferentCustomFields
                              # Props.ignoreDifferentCustomFields
                        THEN Some(modal.state.ignoreDifferentCustomFields) ELSE Null]]
    /\ UNCHANGED <<calc, categoryVars, balanceVars>>

\* A save of the threshold whose failure is swallowed: the flag is saved next.
SaveThresholdSwallowingFailure(ok) ==
    /\ modal.pc = "threshold"
    /\ IF modal.args.threshold = Null \/ ~ok
       THEN modal' = [modal EXCEPT !.pc = "flag"]
       ELSE \E v \in modal.args.threshold :
               modal' = [modal EXCEPT
                            !.settings.threshold = v,
                            !.writes = Append(@, [key |-> "duplicate-threshold",
                                                  value |-> v]),
                            !.pc = "flag"]
    /\ UNCHANGED <<calc, categoryVars, balanceVars>>

\* handleSubmit, lines 30-32: the threshold is saved when it is not null; a
\* failure goes to the catch clause of line 43.
SaveThreshold(ok) ==
    /\ modal.pc = "threshold"
    /\ IF modal.args.threshold = Null
       THEN modal' = [modal EXCEPT !.pc = "flag"]
       ELSE IF ok
            THEN \E v \in modal.args.threshold :
                    modal' = [modal EXCEPT
                                 !.settings.threshold = v,
                                 !.writes = Append(@, [key |-> "duplicate-threshold",
                                                       value |-> v]),
                                 !.pc = "flag"]
            ELSE modal' = [modal EXCEPT !.pc = "idle"]
    /\ UNCHANGED <<calc, categoryVars, balanceVars>>

\* handleSubmit, lines 34-40: the flag is saved when it is not null.
SaveFlag(ok) ==
    /\ modal.pc = "flag"
    /\ IF modal.args.ignoreDifferentCustomFields = Null
       THEN modal' = [modal EXCEPT !.pc = "hide"]
       ELSE IF ok
            THEN \E v \in modal.args.ignoreDifferentCustomFields :
                    modal' = [modal EXCEPT
                                 !.settings.ignoreDifferentCustomFields = v,
                                 !.writes = Append(@,
                                     [key |-> "duplicate-ignore-different-custom-fields",
                                      value |-> v]),
                                 !.pc = "hide"]
            ELSE modal' = [modal EXCEPT !.pc = "idle"]
    /\ UNCHANGED <<calc, categoryVars, balanceVars>>

\* handleSubmit, line 42: actions.hideModal(dispatch).
HideModal ==
    /\ modal.pc = "hide"
    /\ modal' = [modal EXCEPT !.pc = "idle", !.open = FALSE, !.hidden = TRUE]
    /\ UNCHANGED <<calc, categoryVars, balanceVars>>

InitModal ==
    /\ categories = {}
    /\ transactions = [t \in TxIds |-> [userId |-> TxOwner(t), categoryId |-> NoCategory,
                                         amount |-> AmountOf(t)]]
    /\ budgets = {}
    /\ req = [p \in Procs |-> IdleReq]
    /\ pre = [p \in Procs |-> EmptyStore]
    /\ accounts = [a \in AccIds |->
                     [type |-> KindOf(a).type, initialBalance |-> KindOf(a).initialBalance,
                      balance |-> Null]]
    /\ ledger = {}
    /\ now = 1
    /\ dirty = [a \in AccIds |-> {}]
    /\ last = NoResult
    /\ calc = NoCalc
    /\ \E flag \in BOOLEAN :
          modal = [ClosedModal EXCEPT !.settings.ignoreDifferentCustomFields = flag]

NextModal ==
    \/ ShowModal
    \/ \E text \in TypedTexts : handleThresholdChange(text)
    \/ \E checked \in BOOLEAN : handleCustomLabelsCheckChange(checked)
    \/ \E validated \in BOOLEAN : ContentHandleSubmit(validated)
    \/ \E ok \in BOOLEAN : SaveThreshold(ok)
    \/ \E ok \in BOOLEAN : SaveFlag(ok)
    \/ HideModal

SpecModal == InitModal /\ [][NextModal]_vars

\* ------------------------------------------------------ the duplicate matcher
MaxDupTx == 3
DupIds == 1..MaxDupTx

\* Value dates in hours, and the thresholds the matcher is called with.
Hours == {0, 48, 50}
Thresholds == {0, 48}

\* The transactions sorted by value date, rows of the same date in id order.
RECURSIVE SortedByDate(_)
SortedByDate(txs) ==
    IF txs = {} THEN <<>>
    ELSE LET t == CHOOSE x \in txs :
                      \A y \in txs : x.date < y.date \/ (x.date = y.date /\ x.id <= y.id)
         IN <<t>> \o SortedByDate(txs \ {t})

\* Two transactions are duplicate candidates: same account, same signed amount
\* and, unless custom fields are ignored, same custom label (or both absent).
IsCandidate(t1, t2, ignoreCustomFields) ==
    /\ t1.accountId = t2.accountId
    /\ t1.amount = t2.amount
    /\ ignoreCustomFields \/ t1.customLabel = t2.customLabel

\* The scan of the transactions after position i: it stops at the first one
\* further than the threshold from the i-th; a pair the user dismissed is left out.
RECURSIVE Scan(_, _, _, _, _, _)
Scan(sorted, i, j, thresholdHours, ignoreCustomFields, excluded) ==
    IF j > Len(sorted) THEN <<>>
    ELSE IF sorted[j].date - sorted[i].date > thresholdHours THEN <<>>
    ELSE (IF /\ IsCandidate(sorted[i], sorted[j], ignoreCustomFields)
             /\ {sorted[i].id, sorted[j].id} \notin excluded
          THEN <<(<<sorted[i].id, sorted[j].id>>)>>
          ELSE <<>>)
         \o Scan(sorted, i, j + 1, thresholdHours, ignoreCustomFields, excluded)

RECURSIVE ScanAll(_, _, _, _, _)
ScanAll(sorted, i, thresholdHours, ignoreCustomFields, excluded) ==
    IF i > Len(sorted) THEN <<>>
    ELSE Scan(sorted, i, i + 1, thresholdHours, ignoreCustomFields, excluded)
         \o ScanAll(sorted, i + 1, thresholdHours, ignoreCustomFields, excluded)

\* A matcher that compares every transaction with every transaction in its
\* window, itself and the earlier ones included.
findDuplicatesBothWays(txs, thresholdHours, ignoreCustomFields, excluded) ==
    LET sorted == SortedByDate(txs)
        n == Len(sorted)
        cell(k) == <<((k - 1) \div n) + 1, ((k - 1) % n) + 1>>
        hit(k) == LET i == cell(k)[1]
                      j == cell(k)[2]
                  IN /\ sorted[j].date - sorted[i].date <= thresholdHours
                     /\ sorted[i].date - sorted[j].date <= thresholdHours
                     /\ IsCandidate(sorted[i], sorted[j], ignoreCustomFields)
        ks == SelectSeq([k \in 1..(n * n) |-> k], hit)
    IN [x \in 1..Len(ks) |-> <<sorted[cell(ks[x])[1]].id, sorted[cell(ks[x])[2]].id>>]

\* A matcher without the time window.
findDuplicatesNoWindow(txs, thresholdHours, ignoreCustomFields, excluded) ==
    ScanAll(SortedByDate(txs), 1, 50 + 1, ignoreCustomFields, excluded)

\* findDuplicates(transactions, thresholdHours, ignoreCustomFields), with the set
\* of dismissed pairs: the sequence of pairs reported.
findDuplicates(txs, thresholdHours, ignoreCustomFields, excluded) ==
    ScanAll(SortedByDate(txs), 1, thresholdHours, ignoreCustomFields, excluded)

\* The transactions the matcher is given: only the last id may be of another
\* account than the first.
DupRows(id) ==
    [id : {id}, accountId : IF id = MaxDupTx THEN AccIds ELSE {1},
     amount : {AmountOf(1), AmountOf(2)}, date : Hours, customLabel : {Null, Some("x")}]

InitDuplicates ==
    /\ categories = {}
    /\ transactions = [t \in TxIds |-> [userId |-> TxOwner(t), categoryId |-> NoCategory,
                                         amount |-> AmountOf(t)]]
    /\ budgets = {}
    /\ req = [p \in Procs |-> IdleReq]
    /\ pre = [p \in Procs |-> EmptyStore]
    /\ accounts = [a \in AccIds |->
                     [type |-> KindOf(a).type, initialBalance |-> KindOf(a).initialBalance,
                      balance |-> Null]]
    /\ \E f \in [DupIds -> UNION {DupRows(id) : id \in DupIds}] :
          /\ \A id \in DupIds : f[id] \in DupRows(id)
          /\ ledger = {f[id] : id \in DupIds}
    /\ now = 1
    /\ dirty = [a \in AccIds |-> {}]
    /\ last = NoResult
    /\ calc = NoCalc
    /\ modal = ClosedModal

\* findDuplicates is called on the transactions.
CallFindDuplicates(thresholdHours, ignoreCustomFields, excluded) ==
    /\ calc' = [op |-> "findDuplicates", thresholdHours |-> thresholdHours,
                ignoreCustomFields |-> ignoreCustomFields, excluded |-> excluded,
                pairs |-> findDuplicates(ledger, thresholdHours, ignoreCustomFields, excluded)]
    /\ UNCHANGED <<accounts, ledger, now, dirty, last, modal, categoryVars>>

\* The user dismissed no pair, or the pair of the first two transactions.
Exclusions == {{}, {{1, 2}}}

NextDuplicates ==
    \E thresholdHours \in Thresholds, ignoreCustomFields \in BOOLEAN, excluded \in Exclusions :
        CallFindDuplicates(thresholdHours, ignoreCustomFields, excluded)

SpecDuplicates == InitDuplicates /\ [][NextDuplicates]_vars

\* ------------------------------------------------------------ the claims
InDestroy(p) == req[p].handler = "destroy"
Finished(p) == req[p].pc = "done"
Succeeded(p) == InDestroy(p) /\ Finished(p) /\ req[p].status = 200
ExactBody(p) == DOMAIN req[p].body = {"replaceByCategoryId"}

\* The whole cascade applied to a store: what a successful destroy is to leave.
Cascaded(s, userId, c, r) ==
    [categories |-> {k \in s.categories : ~(k.userId = userId /\ k.id = c)},
     transactions |-> [t \in DOMAIN s.transactions |->
                         IF s.transactions[t].userId = userId /\ s.transactions[t].categoryId = c
                         THEN [s.transactions[t] EXCEPT !.categoryId = r]
                         ELSE s.transactions[t]],
     budgets |-> {b \in s.budgets : ~(b.userId = userId /\ b.categoryId = c)}]

\* C1: in every state during and after a destroy request, every non-null
\* Transaction.categoryId names a Category that exists in the store.
C1_ReferentialIntegrity ==
    \A t \in DOMAIN transactions :
        transactions[t].categoryId # NoCategory
            => transactions[t].categoryId \in CategoryIdsOf(categories)

\* Referential integrity is lost by no step other than the Category.destroy of a
\* request that names the destroyed category itself as its replacement.
ReferentialIntegrityUnlessSelfReplaced ==
    [][(/\ C1_ReferentialIntegrity
        /\ ~\E p \in Procs : req[p].pc = "category" /\ req[p].categoryId = req[p].id)
       => C1_ReferentialIntegrity']_vars

\* C2: after a successful destroy of c with replacement r no transaction
\* references c, every transaction that referenced c has categoryId = r, and the
\* other transactions keep their categoryId.
C2_DestroyPostcondition ==
    \A p \in Procs :
        Succeeded(p) =>
            LET c == req[p].id
                r == req[p].body.replaceByCategoryId
                before == pre[p].transactions
            IN /\ \A t \in DOMAIN transactions : transactions[t].categoryId # c
               /\ \A t \in DOMAIN transactions :
                     (before[t].userId = req[p].userId /\ before[t].categoryId = c)
                        => transactions[t].categoryId = r
               /\ \A t \in DOMAIN transactions :
                     before[t].categoryId # c
                        => transactions[t].categoryId = before[t].categoryId

\* C3: a destroy whose non-null replaceByCategoryId names no category of the user
\* changes nothing in the store at any point, and ends with 404 (with the store's
\* error, 500, only when the lookup itself threw).
C3_MissingReplacementRejected ==
    \A p \in Procs :
        (/\ InDestroy(p)
         /\ ExactBody(p)
         /\ req[p].body.replaceByCategoryId # NoCategory
         /\ ~\E k \in pre[p].categories :
               k.userId = req[p].userId /\ k.id = req[p].body.replaceByCategoryId)
        => /\ Store = pre[p]
           /\ Finished(p) =>
                 IF req[p].lookupThrew THEN req[p].status = 500 ELSE req[p].status = 404

\* C3 witness: a destroy of a category that has transactions was answered 404
\* because its replacement is a category of another user or a deleted one.
C3_Witness ==
    \E p \in Procs :
        /\ InDestroy(p) /\ Finished(p) /\ req[p].status = 404
        /\ \E t \in DOMAIN transactions :
              transactions[t].userId = req[p].userId /\ transactions[t].categoryId = req[p].id
        /\ \E b \in budgets : b.userId = req[p].userId /\ b.categoryId = req[p].id

\* C4: when a destroy has ended, the store is either exactly as before the
\* request or holds the whole cascade, whatever store call failed.
C4_CascadeAtomic ==
    \A p \in Procs :
        (InDestroy(p) /\ Finished(p))
        => \/ Store = pre[p]
           \/ Store = Cascaded(pre[p], req[p].userId, req[p].id, req[p].categoryId)

C6_MalformedBodyRejected ==
    \A p \in Procs :
        (InDestroy(p) /\ ~ExactBody(p))
        => /\ req[p].calls = {}
           /\ Store = pre[p]
           /\ Finished(p) /\ req[p].status = 400

\* C6 witness: a body with replaceByCategoryId and an extra field was answered
\* 400, for a category that has transactions to migrate.
C6_Witness ==
    \E p \in Procs :
        /\ InDestroy(p) /\ Finished(p) /\ req[p].status = 400
        /\ DOMAIN req[p].body = {"replaceByCategoryId", "label"}
        /\ \E t \in DOMAIN transactions :
              transactions[t].userId = req[p].userId /\ transactions[t].categoryId = req[p].id

\* What an account read (find, or the find that ends update) returned.
Returned == last.op \in {"find", "update"}
OpsOf(accountId) == TransactionByAccount(ledger, accountId)

\* C7: a balance filled in by ensureBalance equals initialBalance plus the sum of
\* the amounts of the account's transactions included at recomputation time.
C7_CachedBalanceInvariant ==
    (Returned /\ last.reads > 0)
    => last.balance = Some(computeBalance(accounts[last.id], OpsOf(last.id), now,
                                          accounts[last.id].initialBalance))

\* C8: once a read has filled in a null balance, the stored account record
\* carries that balance.
C8_BalancePersisted ==
    (Returned /\ last.stored = Null)
    => (accounts[last.id].balance # Null /\ accounts[last.id].balance = last.balance)

\* C9: ensureBalance on an account whose balance is non-null reads no
\* transaction and leaves the balance and the store as they were.
C9_EnsureBalanceNoOp ==
    (Returned /\ last.stored # Null)
    => /\ last.balance = last.stored
       /\ last.reads = 0
       /\ <<accounts, ledger>> = last.before
       /\ accounts[last.id].balance = last.stored

\* C9 witness: a find returned a cached balance that differs from what
\* computeBalance returns on the account's transactions now.
C9_Witness ==
    /\ last.op = "find"
    /\ last.stored # Null
    /\ OpsOf(last.id) # <<>>
    /\ last.balance # Some(computeBalance(accounts[last.id], OpsOf(last.id), now, DefaultOffset))

RowsOf(accountId) == {r \in ledger : r.accountId = accountId}

RECURSIVE SumOf(_)
SumOf(rows) ==
    IF rows = {} THEN 0
    ELSE LET r == CHOOSE x \in rows : TRUE IN r.amount + SumOf(rows \ {r})

ExactSum(rows, offset) ==
    IF \E r \in rows : r.amount = NaN THEN NaN ELSE offset + SumOf(rows)

\* x is r rounded to a hundredth: a multiple of 10 thousandths at most half a
\* hundredth away.
RoundedTo2(x, r) == IF r = NaN THEN x = NaN ELSE x # NaN /\ x % 10 = 0 /\ x - r \in -5..5

WellFormed(r) == r.amount # NaN /\ r.date # InvalidDate

\* C11: computeBalance(offset) returns offset plus the sum of the amounts of
\* exactly the rows of the account that shouldIncludeInBalance keeps, rounded to
\* two decimals, and changes neither the account's balance nor any store record.
C11_ComputeBalanceContract ==
    calc.op = "computeBalance" =>
        LET included == {r \in RowsOf(calc.id) :
                           shouldIncludeInBalance(r, calc.today, accounts[calc.id].type)}
        IN /\ calc.counted = {r.id : r \in included}
           /\ RoundedTo2(calc.result, ExactSum(included, calc.offset))
           /\ <<accounts, ledger>> = calc.before
           /\ accounts[calc.id].balance = calc.before[1][calc.id].balance

\* C11 witness: a call with a non-zero offset on an account with a cached
\* balance, one row kept and another row, left out or of another account.
C11_Witness ==
    /\ calc.op = "computeBalance"
    /\ calc.offset # 0
    /\ calc.result # NaN
    /\ accounts[calc.id].balance # Null
    /\ calc.counted # {}
    /\ \E r \in ledger : r.id \notin calc.counted

\* C12: with rows whose amount or date is malformed, computeBalance returns the
\* sum over the well-formed included rows only.
C12_CorruptRowsSkipped ==
    calc.op = "computeBalance" =>
        LET included == {r \in RowsOf(calc.id) :
                           /\ WellFormed(r)
                           /\ shouldIncludeInBalance(r, calc.today, accounts[calc.id].type)}
        IN RoundedTo2(calc.result, ExactSum(included, calc.offset))

\* C13: two consecutive recomputations of an account's balance, with no ledger
\* mutation between them and read on the same day, yield the same value.
C13_RecomputationIdempotentSameDay ==
    calc.op = "computeBalance" =>
        \A p \in calc.prev : p.today = calc.today => p.result = calc.result

\* C13 as stated: the same value even when the clock read by the two
\* recomputations differs.
C13_RecomputationIdempotentAnyClock ==
    calc.op = "computeBalance" => \A p \in calc.prev : p.result = calc.result

\* C13 witness: a recomputation follows another on the same day, the store
\* handing the rows over in another order, with a row kept and a row left out.
C13_Witness ==
    /\ calc.op = "computeBalance"
    /\ \E p \in calc.prev : p.today = calc.today /\ p.ops # calc.ops
    /\ calc.counted # {}
    /\ \E r \in RowsOf(calc.id) : r.id \notin calc.counted

\* C14: whatever the order in which the store supplies the account's rows,
\* computeBalance returns the same balance.
C14_OrderInvariant ==
    calc.op = "computeBalance" =>
        \A q \in Orderings(RowsOf(calc.id)) :
            computeBalance(accounts[calc.id], q, calc.today, calc.offset) = calc.result

\* C14 witness: a call on two included rows of different amounts, whose result
\* another account type would not give.
C14_Witness ==
    /\ calc.op = "computeBalance"
    /\ Cardinality(calc.counted) >= 2
    /\ \E r1, r2 \in RowsOf(calc.id) : r1.amount # r2.amount
    /\ calc.result # NaN
    /\ \E type \in TypeValues :
          computeBalance([accounts[calc.id] EXCEPT !.type = type], calc.ops, calc.today,
                         calc.offset) # calc.result

KnownTypeNames == {t.name : t \in AccountTypes}

\* C15: for an account type the table does not hold, computeBalance returns a
\* balance and leaves every future-dated row out of it; for every type it returns;
\* looking up an id the table does not hold yields null and logs an error.
C15_TotalOverAccountTypes ==
    /\ calc.op = "computeBalance" =>
          /\ calc.result = NaN \/ calc.result \in Int
          /\ accounts[calc.id].type \notin KnownTypeNames =>
                /\ \A r \in RowsOf(calc.id) : r.date > calc.today => r.id \notin calc.counted
                /\ calc.counted = {r.id : r \in {x \in RowsOf(calc.id) :
                                       x.date # InvalidDate /\ x.date <= calc.today}}
    /\ (/\ calc.op = "accountTypeIdToName"
        /\ ~Falsy(calc.arg)
        /\ calc.arg.text \notin {t.weboobvalue : t \in AccountTypes})
       => (calc.name = Null /\ calc.logged)

\* C15 witness: the balance of an account of a type the table does not hold was
\* computed, with a past row kept and a future-dated row left out.
C15_Witness ==
    /\ calc.op = "computeBalance"
    /\ accounts[calc.id].type \notin KnownTypeNames
    /\ calc.counted # {}
    /\ \E r \in RowsOf(calc.id) : r.date > calc.today

\* C16: no row counted by computeOutstandingSum is included in the balance of
\* its account, with or without the limit to the current month.
C16_NoDoubleCounting ==
    calc.op = "computeOutstandingSum" =>
        \A r \in RowsOf(calc.id) :
            r.id \in calc.counted
                => ~shouldIncludeInBalance(r, calc.today, accounts[calc.id].type)

\* For the account types whose balance is not forward-looking no row is counted
\* on both sides.
NoDoubleCountingUnlessCard ==
    (calc.op = "computeOutstandingSum" /\ accounts[calc.id].type # "account-type.card")
    => \A r \in RowsOf(calc.id) :
          r.id \in calc.counted
             => ~shouldIncludeInBalance(r, calc.today, accounts[calc.id].type)
\* C17: no step of a destroy request, successful or failed, changes a
\* transaction's amount, an account's cached balance or initialBalance, or a
\* ledger row; no balance is set to null.
C17_DestroyFramesBalances ==
    [][/\ accounts' = accounts
       /\ ledger' = ledger
       /\ \A t \in TxIds : transactions'[t].amount = transactions[t].amount]_vars

\* C17 witness: a destroy succeeded and re-pointed a transaction while an
\* account carries a cached balance.
C17_Witness ==
    \E p \in Procs :
        /\ Succeeded(p)
        /\ \E t \in TxIds : pre[p].transactions[t].categoryId # transactions[t].categoryId
        /\ \E a \in AccIds : accounts[a].balance # Null
        /\ ledger # {}

\* A text that denotes a non-negative whole number of hours.
NonNegativeInteger(text) ==
    NumberOf(text) # {} /\ \A n \in NumberOf(text) : n >= 0 /\ n % 10 = 0

NonNumericThresholdIgnored ==
    /\ NumberOf(modal.state.threshold) # {}
    /\ NumberOf(modal.settings.threshold) # {}

\* A submission that went through the validation of the field writes a
\* non-negative whole number only.
ValidatedSubmitWritesValidThreshold ==
    modal.validated =>
        /\ \A v \in modal.args.threshold : NonNegativeInteger(v)
        /\ \A i \in DOMAIN modal.writes :
              modal.writes[i].key = "duplicate-threshold"
                 => NonNegativeInteger(modal.writes[i].value)

\* The row of the ledger with the given id.
RowWithId(id) == CHOOSE r \in ledger : r.id = id

\* C19: findDuplicates reports no pair of a transaction with itself and no
\* unordered pair twice, in either order.
C19_PairsReportedOnce ==
    calc.op = "findDuplicates" =>
        /\ \A i \in DOMAIN calc.pairs : calc.pairs[i][1] # calc.pairs[i][2]
        /\ \A i, j \in DOMAIN calc.pairs :
              i # j => {calc.pairs[i][1], calc.pairs[i][2]}
                          # {calc.pairs[j][1], calc.pairs[j][2]}

\* C19 witness: three transactions match one another and the three pairs were
\* reported.
C19_Witness ==
    /\ calc.op = "findDuplicates"
    /\ Len(calc.pairs) >= 3

\* C20: every pair reported has value dates at most thresholdHours apart: with a
\* threshold of 0 the two dates are the same, with a threshold of 48 no pair 50
\* hours apart is reported.
C20_WithinTimeWindow ==
    calc.op = "findDuplicates" =>
        \A i \in DOMAIN calc.pairs :
            LET d1 == RowWithId(calc.pairs[i][1]).date
                d2 == RowWithId(calc.pairs[i][2]).date
            IN /\ d1 - d2 <= calc.thresholdHours
               /\ d2 - d1 <= calc.thresholdHours
               /\ calc.thresholdHours = 0 => d1 = d2
               /\ calc.thresholdHours = 48 => (d1 - d2 # 50 /\ d2 - d1 # 50)

\* C20 witness: with a threshold of 48 hours a pair 48 hours apart was reported
\* and two transactions 50 hours apart, otherwise identical, were not.
C20_Witness ==
    /\ calc.op = "findDuplicates"
    /\ calc.thresholdHours = 48
    /\ calc.pairs # <<>>
    /\ \E i \in DOMAIN calc.pairs :
          RowWithId(calc.pairs[i][2]).date - RowWithId(calc.pairs[i][1]).date = 48
    /\ \E t1, t2 \in ledger :
          /\ t2.date - t1.date = 50
          /\ IsCandidate(t1, t2, calc.ignoreCustomFields)
          /\ t1.customLabel = t2.customLabel
          /\ {t1.id, t2.id} \notin calc.excluded

\* No request is being served: every handler is idle or has answered.
Quiescent == \A p \in Procs : req[p].pc \in {"idle", "done"}

\* C21: whatever the interleaving of a destroy(c, r) with requests of the same
\* user that destroy r or assign a transaction to c, once every request has
\* completed every non-null Transaction.categoryId names an existing Category.
C21_IntegrityAfterInterleaving ==
    Quiescent =>
        \A t \in DOMAIN transactions :
            transactions[t].categoryId # NoCategory
                => \E k \in categories : k.id = transactions[t].categoryId

\* While a single request is served, with the other handler idle, no reference
\* is left dangling at any point: the loss needs two requests in flight.
SingleRequestKeepsIntegrity ==
    (\E p \in Procs : \A q \in Procs \ {p} : req[q].pc = "idle")
        => C1_ReferentialIntegrity

\* The rows of a store that belong to other users than userId.
RowsOfOthers(s, userId) ==
    [categories |-> {k \in s.categories : k.userId # userId},
     transactions |-> {<<t, s.transactions[t]>> : t \in
                          {u \in DOMAIN s.transactions : s.transactions[u].userId # userId}},
     budgets |-> {b \in s.budgets : b.userId # userId}]

\* The request names, as the category to destroy or as its replacement, a
\* category that another user owns.
NamesForeignCategory(p, id) ==
    \E k \in pre[p].categories : k.id = id /\ k.userId # req[p].userId

\* C22: a destroy request of user u reads and changes only rows of u: the rows
\* of every other user are as they were when the request arrived, the
\* transactions it read are u's, and a request naming a category of another
\* user, as the one to destroy or as the replacement, ends with 404 (500 when
\* the lookup threw) with the store unchanged.
C22_UserIsolation ==
    \A p \in Procs :
        req[p].handler \in {"preloadCategory", "destroy"} =>
            /\ RowsOfOthers(Store, req[p].userId) = RowsOfOthers(pre[p], req[p].userId)
            /\ \A i \in 1..Len(req[p].ops) :
                  transactions[req[p].ops[i]].userId = req[p].userId
            /\ NamesForeignCategory(p, req[p].id) =>
                  /\ Store = pre[p]
                  /\ Finished(p) /\ req[p].status \in {404, 500}
                  /\ ~InDestroy(p)
            /\ (/\ InDestroy(p) /\ Finished(p) /\ ExactBody(p)
                /\ NamesForeignCategory(p, req[p].body.replaceByCategoryId))
               => /\ Store = pre[p]
                  /\ req[p].status = IF req[p].lookupThrew THEN 500 ELSE 404

\* C22 witness: a destroy of a category that has transactions, whose
\* replacement is a category of another user who has a transaction and a
\* budget under it, was answered 404.
C22_Witness ==
    \E p \in Procs :
        /\ InDestroy(p) /\ Finished(p) /\ req[p].status = 404
        /\ NamesForeignCategory(p, req[p].body.replaceByCategoryId)
        /\ \E t \in DOMAIN transactions :
              transactions[t].userId = req[p].userId /\ transactions[t].categoryId = req[p].id
        /\ \E t \in DOMAIN transactions :
              /\ transactions[t].userId # req[p].userId
              /\ transactions[t].categoryId = req[p].body.replaceByCategoryId
        /\ \E b \in budgets :
              b.userId # req[p].userId /\ b.categoryId = req[p].body.replaceByCategoryId

\* The operations that return a list of accounts, or the one just created.
ListOps == {"byVendorId", "findMany", "byAccess", "all", "create"}

\* C23: every Account returned by find (of an existing account), update, all,
\* byAccess, byVendorId, findMany or create carries a non-null balance,
\* whatever the stored balance was.
C23_ReturnedBalanceNonNull ==
    /\ last.op \in {"find", "update"} => last.balance # Null
    /\ calc.op \in ListOps => \A a \in DOMAIN calc.returned : calc.returned[a] # Null

\* C23 witness: a list operation returned two accounts, one stored with a null
\* balance and one with a numeric balance.
C23_Witness ==
    /\ calc.op \in ListOps \ {"create"}
    /\ \E a, b \in DOMAIN calc.returned :
          /\ calc.stored[a] = Null
          /\ calc.stored[b] # Null
          /\ calc.returned[b] = calc.stored[b]

\* The settings a submit is to write, in the order handleSubmit writes them:
\* those whose local value differed from the stored one when it was submitted.
DifferingAtSubmit ==
    LET local == modal.atSubmit.state
        stored == modal.atSubmit.props
    IN (IF local.threshold # stored.threshold
        THEN <<[key |-> "duplicate-threshold", value |-> local.threshold]>> ELSE <<>>)
       \o (IF local.ignoreDifferentCustomFields # stored.ignoreDifferentCustomFields
           THEN <<[key |-> "duplicate-ignore-different-custom-fields",
                   value |-> local.ignoreDifferentCustomFields]>>
           ELSE <<>>)

\* Two writes of the same setting with the same value.
SameWrite(a, b) == a.key = b.key /\ a.value = b.value

\* Two sequences of writes that are the same, write by write.
SameWrites(ws, vs) ==
    Len(ws) = Len(vs) /\ \A i \in DOMAIN ws : SameWrite(ws[i], vs[i])

\* C24: a submit of the modal writes only the settings whose local value
\* differed from the stored one when it was submitted, each with the local
\* value; when both local values equal the stored ones, however they were
\* edited before, it writes nothing, and when the modal is hidden it has
\* written every setting that differed.
C24_OnlyChangedSettingsWritten ==
    /\ \A i \in DOMAIN modal.writes :
          \E j \in DOMAIN DifferingAtSubmit : SameWrite(modal.writes[i], DifferingAtSubmit[j])
    /\ (/\ modal.atSubmit.state.threshold = modal.atSubmit.props.threshold
        /\ modal.atSubmit.state.ignoreDifferentCustomFields
              = modal.atSubmit.props.ignoreDifferentCustomFields)
       => modal.writes = <<>>
    /\ (modal.hidden /\ modal.pc = "idle") => SameWrites(modal.writes, DifferingAtSubmit)

\* C24 witness: the modal was edited, submitted with both local values back at
\* the stored ones, and hidden without a write.
C24_Witness ==
    /\ modal.hidden
    /\ modal.atSubmit.state.hasChanged
    /\ modal.atSubmit.state.threshold = modal.atSubmit.props.threshold
    /\ modal.atSubmit.state.ignoreDifferentCustomFields
          = modal.atSubmit.props.ignoreDifferentCustomFields
    /\ modal.writes = <<>>

\* The writes handleSubmit was asked for, in the order it makes them: the
\* threshold when its argument is not null, then the flag when its is not.
RequestedThreshold ==
    IF modal.args.threshold = Null THEN <<>>
    ELSE <<[key |-> "duplicate-threshold",
            value |-> CHOOSE v \in modal.args.threshold : TRUE]>>
RequestedFlag ==
    IF modal.args.ignoreDifferentCustomFields = Null THEN <<>>
    ELSE <<[key |-> "duplicate-ignore-different-custom-fields",
            value |-> CHOOSE v \in modal.args.ignoreDifferentCustomFields : TRUE]>>
RequestedWrites == RequestedThreshold \o RequestedFlag

\* C25: the modal is hidden only by a submit whose requested writes have all
\* succeeded, the threshold before the flag. When the save of the threshold
\* fails the flag is not written, no setting changes and the modal stays
\* open; when the save of the flag fails the modal stays open and the
\* threshold saved before it stays saved.
C25_HiddenOnlyAfterAllWrites ==
    [][/\ ((~modal.hidden /\ modal'.hidden) \/ (modal.open /\ ~modal'.open))
          => /\ modal.pc = "hide"
             /\ SameWrites(modal.writes, RequestedWrites)
       /\ Len(modal'.writes) > Len(modal.writes)
          => /\ Len(modal'.writes) <= Len(RequestedWrites)
             /\ SameWrites(modal'.writes, SubSeq(RequestedWrites, 1, Len(modal'.writes)))
       /\ (modal.pc = "threshold" /\ modal'.pc = "idle")
          => /\ modal'.open /\ ~modal'.hidden
             /\ modal'.writes = <<>>
             /\ modal'.settings = modal.settings
       /\ (modal.pc = "flag" /\ modal'.pc = "idle")
          => /\ modal'.open /\ ~modal'.hidden
             /\ modal'.settings = modal.settings
             /\ SameWrites(modal'.writes, RequestedThreshold)
             /\ \A v \in modal.args.threshold : modal'.settings.threshold = v
      ]_vars

\* C25 witness: the threshold was saved, the save of the flag failed, and the
\* modal is open with the new threshold in the settings.
C25_Witness ==
    /\ modal.open /\ ~modal.hidden
    /\ modal.pc = "idle"
    /\ modal.args.ignoreDifferentCustomFields # Null
    /\ Len(modal.writes) = 1
    /\ modal.writes[1].key = "duplicate-threshold"
    /\ modal.settings.threshold = modal.writes[1].value
    /\ modal.settings.threshold # modal.atSubmit.props.threshold
====
